---- MODULE Spec2Model ----
(***************************************************************************)
(* A model of File_tree.py: the FileTree node (one directory of an         *)
(* in-memory tree), its path resolution, its mutators and the two          *)
(* materialisation walks (mkdir, mkTree) over a small POSIX filesystem.    *)
(*                                                                         *)
(* A Python string that is used as a path is a sequence of tokens: the     *)
(* token "/" is the separator character, every other token is a non-empty  *)
(* run of characters without a separator.  The empty sequence is "".       *)
(***************************************************************************)
EXTENDS Integers, Sequences, FiniteSets, TLC

VARIABLES nodes, fs, last, nOps

vars == <<nodes, fs, last, nOps>>

----------------------------------------------------------------------------
(* Bounds of the model *)

\* the number of FileTree objects alive at once
MaxNodes == 3

\* the number of public calls in one run
MaxOps == 5

\* the length of the argument list of one add_child call
MaxItems == 1

----------------------------------------------------------------------------
(* Vocabulary of the inputs *)

SEP == "/"

\* directory names handed to FileTree(...) and add_child(...)
Names == {<<"a">>, <<"b">>}

\* file names and contents handed to add_file(...); "a" is also a directory name
FileNames == {<<"f">>, <<"a">>}

Contents == {"Hello World!"}

\* the raw root path handed to FileTree(...): a directory that exists on disk
BasePath == <<SEP, "base">>

RootPaths == {BasePath}

----------------------------------------------------------------------------
(* os.path (POSIX) *)

StartsWithSep(s) == Len(s) > 0 /\ s[1] = SEP

EndsWithSep(s) == Len(s) > 0 /\ s[Len(s)] = SEP

\* one round of the loop of posixpath.join: path joined with one more operand b
JoinStep(path, b) ==
    IF StartsWithSep(b) THEN b
    ELSE IF path = <<>> \/ EndsWithSep(path) THEN path \o b
    ELSE path \o <<SEP>> \o b

RECURSIVE join(_, _)
\* os.path.join(a, *p)
join(a, p) ==
    IF p = <<>> THEN a ELSE join(JoinStep(a, Head(p)), Tail(p))

\* the directory entries a path string names, from the filesystem root
Components(path) == SelectSeq(path, LAMBDA t : t # SEP)

DirName(comps) == SubSeq(comps, 1, Len(comps) - 1)

----------------------------------------------------------------------------
(* The filesystem: the directories and the regular files, each named by    *)
(* its components; <<>> is the filesystem root.                            *)

FsExists(f, comps) == comps \in f.dirs \/ comps \in DOMAIN f.files

\* os.path.exists(path)
os_path_exists(f, path) == FsExists(f, Components(path))

\* the error of resolving the directory that is to contain comps, "" if none
ParentError(f, comps) ==
    IF DirName(comps) \in f.dirs THEN ""
    ELSE IF DirName(comps) \in DOMAIN f.files THEN "NotADirectoryError"
    ELSE "FileNotFoundError"

\* os.mkdir as os.makedirs(path, exist_ok=True) of the last component would be:
\* an existing path is skipped
os_mkdir_exist_ok(f, path) ==
    LET comps == Components(path) IN
    IF comps = <<>> THEN [fs |-> f, err |-> ""]
    ELSE IF ParentError(f, comps) # "" THEN [fs |-> f, err |-> ParentError(f, comps)]
    ELSE IF FsExists(f, comps) THEN [fs |-> f, err |-> ""]
    ELSE [fs |-> [f EXCEPT !.dirs = @ \cup {comps}], err |-> ""]

\* os.mkdir(path): not recursive, fails when the path exists
os_mkdir(f, path) ==
    LET comps == Components(path) IN
    IF comps = <<>> THEN [fs |-> f, err |-> "FileExistsError"]
    ELSE IF ParentError(f, comps) # "" THEN [fs |-> f, err |-> ParentError(f, comps)]
    ELSE IF FsExists(f, comps) THEN [fs |-> f, err |-> "FileExistsError"]
    ELSE [fs |-> [f EXCEPT !.dirs = @ \cup {comps}], err |-> ""]

\* the files of f with the file at comps holding content
WithFile(f, comps, content) ==
    [f EXCEPT !.files = [c \in DOMAIN f.files \cup {comps} |->
                            IF c = comps THEN content ELSE f.files[c]]]

\* open(path, "w"): creates the file, or truncates it, to the empty content
os_open_w(f, path) ==
    LET comps == Components(path) IN
    IF comps = <<>> \/ comps \in f.dirs THEN [fs |-> f, err |-> "IsADirectoryError"]
    ELSE IF ParentError(f, comps) # "" THEN [fs |-> f, err |-> ParentError(f, comps)]
    ELSE [fs |-> WithFile(f, comps, ""), err |-> ""]

----------------------------------------------------------------------------
(* dict: insertion-ordered, a sequence of [key, val] *)

DictHas(d, k) == \E i \in 1..Len(d) : d[i].key = k

DictGet(d, k) == d[CHOOSE i \in 1..Len(d) : d[i].key = k].val

DictSet(d, k, v) ==
    IF DictHas(d, k)
    THEN [i \in 1..Len(d) |-> IF d[i].key = k THEN [key |-> k, val |-> v] ELSE d[i]]
    ELSE Append(d, [key |-> k, val |-> v])

DictKeys(d) == {d[i].key : i \in 1..Len(d)}

DictValues(d) == {d[i].val : i \in 1..Len(d)}

----------------------------------------------------------------------------
(* FileTree objects.  nodes[i] is the object with identity i.  An object   *)
(* whose constructor raised before an attribute was assigned lacks it:     *)
(* hasChildren / hasFiles say whether self.children / self.files exist.    *)

StrParent(s) == [isStr |-> TRUE, str |-> s, node |-> 0]

NodeParent(i) == [isStr |-> FALSE, str |-> <<>>, node |-> i]

Ids(ns) == 1..Len(ns)

Ok(v) == [err |-> "", val |-> v]

Raise(e) == [err |-> e, val |-> <<>>]

RECURSIVE get_path_recursive(_, _, _, _)
\* __get_path_recursive with path = self.name in place of
\* path = os.path.join(self.name, path): the segments below are lost
get_path_recursive_loses_path(ns, self, path, depth) ==
    IF depth > Len(ns) THEN Raise("RecursionError")
    ELSE IF ns[self].parent.isStr
         THEN Ok(join(ns[self].parent.str, <<ns[self].name, path>>))
         ELSE get_path_recursive(ns, ns[self].parent.node, ns[self].name, depth + 1)

\* FileTree.__get_path_recursive; a chain longer than the number of objects
\* never ends, and Python raises RecursionError
get_path_recursive(ns, self, path, depth) ==
    IF depth > Len(ns) THEN Raise("RecursionError")
    ELSE IF ns[self].parent.isStr
         THEN Ok(join(ns[self].parent.str, <<ns[self].name, path>>))
         ELSE get_path_recursive(ns, ns[self].parent.node,
                                 join(ns[self].name, <<path>>), depth + 1)

get_path(ns, self) == get_path_recursive(ns, self, <<>>, 1)

RECURSIVE get_root_rec(_, _, _)
get_root_rec(ns, self, depth) ==
    IF depth > Len(ns) THEN Raise("RecursionError")
    ELSE IF ns[self].parent.isStr THEN Ok(self)
    ELSE get_root_rec(ns, ns[self].parent.node, depth + 1)

\* FileTree.get_root
get_root(ns, self) == get_root_rec(ns, self, 1)

\* FileTree.get_root_path
get_root_path(ns, self) ==
    IF get_root(ns, self).err # "" THEN Raise(get_root(ns, self).err)
    ELSE Ok(ns[get_root(ns, self).val].parent.str)

\* FileTree.get_child: 0 stands for None
get_child(ns, self, name) ==
    IF DictHas(ns[self].children, name) THEN DictGet(ns[self].children, name) ELSE 0

\* get_file_path without the "file_item is None" test
get_file_path_unchecked(ns, self, file_name) ==
    IF ~ns[self].hasFiles THEN [err |-> "AttributeError", none |-> FALSE, val |-> <<>>]
    ELSE IF get_path(ns, self).err # ""
         THEN [err |-> get_path(ns, self).err, none |-> FALSE, val |-> <<>>]
    ELSE [err |-> "", none |-> FALSE,
          val |-> join(get_path(ns, self).val, <<file_name>>)]

\* FileTree.get_file_path: none stands for the None result
get_file_path(ns, self, file_name) ==
    IF ~ns[self].hasFiles THEN [err |-> "AttributeError", none |-> FALSE, val |-> <<>>]
    ELSE IF ~DictHas(ns[self].files, file_name)
         THEN [err |-> "", none |-> TRUE, val |-> <<>>]
    ELSE IF get_path(ns, self).err # ""
         THEN [err |-> get_path(ns, self).err, none |-> FALSE, val |-> <<>>]
    ELSE [err |-> "", none |-> FALSE,
          val |-> join(get_path(ns, self).val, <<file_name>>)]

\* FileTree.create_file: the file is opened before self.files[file_name] is
\* read, and every exception under the try is raised again as PathNotExists
create_file(ns, self, file_name, f) ==
    LET file_path == get_file_path(ns, self, file_name) IN
    IF file_path.err # "" THEN [fs |-> f, err |-> file_path.err]
    ELSE IF file_path.none THEN [fs |-> f, err |-> "FileNotFoundError"]
    ELSE LET opened == os_open_w(f, file_path.val) IN
         IF opened.err # "" THEN [fs |-> f, err |-> "PathNotExists"]
         ELSE IF ~DictHas(ns[self].files, file_name)
              THEN [fs |-> opened.fs, err |-> "PathNotExists"]
         ELSE [fs |-> WithFile(opened.fs, Components(file_path.val),
                               DictGet(ns[self].files, file_name)),
               err |-> ""]

----------------------------------------------------------------------------
(* Construction and the mutators *)

\* the children argument of the constructor: None, or a list of items
NoChildren == [none |-> TRUE, items |-> <<>>]

ChildList(items) == [none |-> FALSE, items |-> items]

\* one item of add_child: a bare name or an existing FileTree
NameItem(s) == [isStr |-> TRUE, str |-> s, node |-> 0]

NodeItem(i) == [isStr |-> FALSE, str |-> <<>>, node |-> i]

\* whether another object still holds a reference to object i
Referenced(ns, i) ==
    \E j \in Ids(ns) \ {i} :
        \/ ~ns[j].parent.isStr /\ ns[j].parent.node = i
        \/ i \in DictValues(ns[j].children)

RECURSIVE init(_, _, _, _, _)
RECURSIVE add_child(_, _, _)

\* add_child without "c.parent = self": an existing node keeps its old parent
add_child_keeps_parent(ns, self, child) ==
    IF child = <<>> THEN [nodes |-> ns, err |-> ""]
    ELSE LET c == Head(child) IN
         IF c.isStr
         THEN LET made == init(ns, c.str, NodeParent(self), <<>>, NoChildren) IN
              IF ~ns[self].hasChildren
              THEN [nodes |-> ns, err |-> "AttributeError"]
              ELSE add_child([made.nodes EXCEPT ![self].children =
                                  DictSet(@, c.str, made.self)],
                             self, Tail(child))
         ELSE IF ~ns[self].hasChildren
              THEN [nodes |-> ns, err |-> "AttributeError"]
              ELSE add_child([ns EXCEPT ![self].children =
                                  DictSet(@, ns[c.node].name, c.node)],
                             self, Tail(child))

\* FileTree.add_child(*child)
add_child(ns, self, child) ==
    IF child = <<>> THEN [nodes |-> ns, err |-> ""]
    ELSE LET c == Head(child) IN
         IF c.isStr
         THEN \* self.children[c] = FileTree(c, self): the right-hand side first
              LET made == init(ns, c.str, NodeParent(self), <<>>, NoChildren) IN
              IF ~ns[self].hasChildren
              THEN [nodes |-> ns, err |-> "AttributeError"]
              ELSE add_child([made.nodes EXCEPT ![self].children =
                                  DictSet(@, c.str, made.self)],
                             self, Tail(child))
         ELSE \* c.parent = self, then self.children[c.name] = c
              LET moved == [ns EXCEPT ![c.node].parent = NodeParent(self)] IN
              IF ~moved[self].hasChildren
              THEN [nodes |-> moved, err |-> "AttributeError"]
              ELSE add_child([moved EXCEPT ![self].children =
                                  DictSet(@, moved[c.node].name, c.node)],
                             self, Tail(child))

\* FileTree.__init__(name, parent, files=files, children=children); files = <<>>
\* stands for None and for {} alike (files or {}).  An object whose constructor
\* raised lives on only if add_child had already made it some node's parent.
init(ns, name, parent, files, children) ==
    LET self == Len(ns) + 1
        warned == parent.isStr /\ ~os_path_exists(fs, parent.str)
        bare == Append(ns, [name |-> name, parent |-> parent,
                            children |-> <<>>, files |-> <<>>,
                            hasChildren |-> FALSE, hasFiles |-> FALSE])
    IN IF children.none
       THEN [nodes |-> [bare EXCEPT ![self].hasChildren = TRUE,
                                    ![self].files = files,
                                    ![self].hasFiles = TRUE],
             err |-> "", self |-> self, warned |-> warned]
       ELSE LET added == add_child(bare, self, children.items) IN
            IF added.err # ""
            THEN [nodes |-> IF Referenced(added.nodes, self)
                            THEN added.nodes
                            ELSE SubSeq(added.nodes, 1, self - 1),
                  err |-> added.err, self |-> 0, warned |-> warned]
            ELSE [nodes |-> [added.nodes EXCEPT ![self].files = files,
                                                ![self].hasFiles = TRUE],
                  err |-> "", self |-> self, warned |-> warned]

RECURSIVE add_file(_, _, _)
\* FileTree.add_file(**files): for name, content in files.items()
add_file(ns, self, files) ==
    IF files = <<>> THEN [nodes |-> ns, err |-> ""]
    ELSE IF ~ns[self].hasFiles THEN [nodes |-> ns, err |-> "AttributeError"]
    ELSE add_file([ns EXCEPT ![self].files =
                       DictSet(@, Head(files).key, Head(files).val)],
                  self, Tail(files))

----------------------------------------------------------------------------
(* Materialisation.  A walk threads st = [fs, err, trace]: the filesystem  *)
(* so far, the exception that ended the walk ("" while none), and the      *)
(* filesystem calls made, in order, the failing one included.              *)

Step(kind, node, via, path, file, ok) ==
    [kind |-> kind, node |-> node, via |-> via, path |-> path, file |-> file, ok |-> ok]

StartWalk(f) == [fs |-> f, err |-> "", trace |-> <<>>]

RECURSIVE mkdir_walk(_, _, _, _)
RECURSIVE mkdir_children(_, _, _, _)

\* FileTree.__mkdir__; via is the object whose children loop made the call
mkdir_walk(ns, self, via, st) ==
    LET p == get_path(ns, self) IN
    IF p.err # "" THEN [st EXCEPT !.err = p.err]
    ELSE LET made == os_mkdir(st.fs, p.val)
             st1 == [fs |-> made.fs, err |-> made.err,
                     trace |-> Append(st.trace,
                                 Step("mkdir", self, via, p.val, <<>>, made.err = ""))]
         IN IF made.err # "" THEN st1
            ELSE IF ~ns[self].hasChildren THEN [st1 EXCEPT !.err = "AttributeError"]
            ELSE mkdir_children(ns, self, 1, st1)

\* for child in self.children.values(): child.__mkdir__()
mkdir_children(ns, self, i, st) ==
    IF i > Len(ns[self].children) \/ st.err # "" THEN st
    ELSE mkdir_children(ns, self, i + 1,
                        mkdir_walk(ns, ns[self].children[i].val, self, st))

\* FileTree.mkdir
mkdir(ns, self, f) ==
    IF get_root(ns, self).err # ""
    THEN [fs |-> f, err |-> get_root(ns, self).err, trace |-> <<>>]
    ELSE mkdir_walk(ns, get_root(ns, self).val, 0, StartWalk(f))

RECURSIVE mkTree_walk(_, _, _, _)
RECURSIVE mkTree_files(_, _, _, _)
RECURSIVE mkTree_children(_, _, _, _)

\* for file_name in self.files.keys(): self.create_file(file_name)
mkTree_files(ns, self, i, st) ==
    IF i > Len(ns[self].files) \/ st.err # "" THEN st
    ELSE LET file_name == ns[self].files[i].key
             made == create_file(ns, self, file_name, st.fs)
         IN mkTree_files(ns, self, i + 1,
                [fs |-> made.fs, err |-> made.err,
                 trace |-> Append(st.trace,
                             Step("write", self, self,
                                  get_file_path(ns, self, file_name).val,
                                  file_name, made.err = ""))])

\* for child in self.children.values(): child.__mkTree__()
mkTree_children(ns, self, i, st) ==
    IF i > Len(ns[self].children) \/ st.err # "" THEN st
    ELSE mkTree_children(ns, self, i + 1,
                         mkTree_walk(ns, ns[self].children[i].val, self, st))

\* __mkTree__ with its two loops exchanged: the children before the files
mkTree_walk_children_first(ns, self, via, st) ==
    LET p == get_path(ns, self) IN
    IF p.err # "" THEN [st EXCEPT !.err = p.err]
    ELSE LET made == os_mkdir(st.fs, p.val)
             st1 == [fs |-> made.fs, err |-> made.err,
                     trace |-> Append(st.trace,
                                 Step("mkdir", self, via, p.val, <<>>, made.err = ""))]
         IN IF made.err # "" THEN st1
            ELSE IF ~ns[self].hasChildren THEN [st1 EXCEPT !.err = "AttributeError"]
            ELSE LET st2 == mkTree_children(ns, self, 1, st1) IN
                 IF st2.err # "" THEN st2
                 ELSE IF ~ns[self].hasFiles
                      THEN [st2 EXCEPT !.err = "AttributeError"]
                      ELSE mkTree_files(ns, self, 1, st2)

\* FileTree.__mkTree__
mkTree_walk(ns, self, via, st) ==
    LET p == get_path(ns, self) IN
    IF p.err # "" THEN [st EXCEPT !.err = p.err]
    ELSE LET made == os_mkdir(st.fs, p.val)
             st1 == [fs |-> made.fs, err |-> made.err,
                     trace |-> Append(st.trace,
                                 Step("mkdir", self, via, p.val, <<>>, made.err = ""))]
         IN IF made.err # "" THEN st1
            ELSE IF ~ns[self].hasFiles THEN [st1 EXCEPT !.err = "AttributeError"]
            ELSE LET st2 == mkTree_files(ns, self, 1, st1) IN
                 IF st2.err # "" THEN st2
                 ELSE IF ~ns[self].hasChildren
                      THEN [st2 EXCEPT !.err = "AttributeError"]
                      ELSE mkTree_children(ns, self, 1, st2)

\* FileTree.mkTree
mkTree(ns, self, f) ==
    IF get_root(ns, self).err # ""
    THEN [fs |-> f, err |-> get_root(ns, self).err, trace |-> <<>>]
    ELSE mkTree_walk(ns, get_root(ns, self).val, 0, StartWalk(f))

----------------------------------------------------------------------------
(* The public calls a driver makes, one action each.  last records the     *)
(* call just made: its name, its receiver, its arguments, the exception it *)
(* raised ("" if none) and the filesystem calls it made.                   *)

Parents(ns) == {StrParent(p) : p \in RootPaths} \cup {NodeParent(i) : i \in Ids(ns)}

\* the dicts handed to add_file(**files), one entry each
FileDicts == {<<[key |-> k, val |-> v]>> : k \in FileNames, v \in Contents}

\* the files argument of the constructor: omitted, or the test's one-file dict
InitFiles == {<<>>, <<[key |-> <<"f">>, val |-> "Hello World!"]>>}

Items(ns) == {NameItem(n) : n \in Names} \cup {NodeItem(i) : i \in Ids(ns)}

\* the non-empty argument lists of add_child(*child) and of children=[...]
ItemLists(ns) == UNION {[1..k -> Items(ns)] : k \in 1..MaxItems}

NameCount(items) == Cardinality({i \in 1..Len(items) : items[i].isStr})

Call(op, err, trace) == [op |-> op, err |-> err, trace |-> trace]

Init ==
    /\ nodes = <<>>
    /\ fs = [dirs |-> {<<>>, Components(BasePath)}, files |-> <<>>]
    /\ last = Call("start", "", <<>>)
    /\ nOps = 0

\* FileTree(name, parent, files=files)
Construct(name, parent, files) ==
    /\ Len(nodes) < MaxNodes
    /\ LET made == init(nodes, name, parent, files, NoChildren) IN
       /\ nodes' = made.nodes
       /\ last' = Call("new", made.err, <<>>)
    /\ nOps' = nOps + 1
    /\ UNCHANGED fs

\* FileTree(name, parent, files=files, children=children)
ConstructWithChildren(name, parent, files, children) ==
    /\ Len(nodes) < MaxNodes
    /\ LET made == init(nodes, name, parent, files, ChildList(children)) IN
       /\ nodes' = made.nodes
       /\ last' = Call("new_children", made.err, <<>>)
    /\ nOps' = nOps + 1
    /\ UNCHANGED fs

\* self.add_child(*child)
AddChild(self, child) ==
    /\ Len(nodes) + NameCount(child) <= MaxNodes
    /\ LET added == add_child(nodes, self, child) IN
       /\ nodes' = added.nodes
       /\ last' = Call("add_child", added.err, <<>>)
    /\ nOps' = nOps + 1
    /\ UNCHANGED fs

\* self.add_file(**files)
AddFile(self, files) ==
    /\ LET added == add_file(nodes, self, files) IN
       /\ nodes' = added.nodes
       /\ last' = Call("add_file", added.err, <<>>)
    /\ nOps' = nOps + 1
    /\ UNCHANGED fs

\* self.create_file(file_name)
CreateFile(self, file_name) ==
    /\ LET made == create_file(nodes, self, file_name, fs) IN
       /\ fs' = made.fs
       /\ last' = Call("create_file", made.err, <<>>)
    /\ nOps' = nOps + 1
    /\ UNCHANGED nodes

\* self.mkdir()
MkDir(self) ==
    /\ LET made == mkdir(nodes, self, fs) IN
       /\ fs' = made.fs
       /\ last' = Call("mkdir", made.err, made.trace)
    /\ nOps' = nOps + 1
    /\ UNCHANGED nodes

\* self.mkTree()
MkTree(self) ==
    /\ LET made == mkTree(nodes, self, fs) IN
       /\ fs' = made.fs
       /\ last' = Call("mkTree", made.err, made.trace)
    /\ nOps' = nOps + 1
    /\ UNCHANGED nodes

\* the driver makes any call, with any arguments, while it has calls left
AnyConstruct ==
    /\ nOps < MaxOps
    /\ \E name \in Names, parent \in Parents(nodes), files \in InitFiles :
           Construct(name, parent, files)

AnyConstructWithChildren ==
    /\ nOps < MaxOps
    /\ \E name \in Names, parent \in Parents(nodes), files \in InitFiles,
          children \in ItemLists(nodes) :
           ConstructWithChildren(name, parent, files, children)

AnyAddChild ==
    /\ nOps < MaxOps
    /\ \E self \in Ids(nodes), child \in ItemLists(nodes) : AddChild(self, child)

AnyAddFile ==
    /\ nOps < MaxOps
    /\ \E self \in Ids(nodes), files \in FileDicts : AddFile(self, files)

AnyCreateFile ==
    /\ nOps < MaxOps
    /\ \E self \in Ids(nodes), file_name \in FileNames : CreateFile(self, file_name)

AnyMkDir == nOps < MaxOps /\ \E self \in Ids(nodes) : MkDir(self)

AnyMkTree == nOps < MaxOps /\ \E self \in Ids(nodes) : MkTree(self)

Next ==
    \/ AnyConstruct
    \/ AnyConstructWithChildren
    \/ AnyAddChild
    \/ AnyAddFile
    \/ AnyCreateFile
    \/ AnyMkDir
    \/ AnyMkTree

Spec == Init /\ [][Next]_vars

----------------------------------------------------------------------------
(* The driver of test.py: the calls of the script in their order, nOps     *)
(* being the position in the script, with its literals drawn from the      *)
(* test's vocabulary.  path is an existing directory, written with or      *)
(* without a trailing separator.                                           *)

TestNames == {<<"test_folder">>, <<"test_folder2">>, <<"test_folder3">>}

TestFileNames == {<<"test.txt">>, <<"test3.txt">>}

TestPaths == {BasePath, BasePath \o <<SEP>>}

TestFile(k) == <<[key |-> k, val |-> "Hello World!"]>>

\* root = FileTree("test_folder", path)
TestRoot ==
    nOps = 0 /\ \E name \in TestNames, path \in TestPaths :
                    Construct(name, StrParent(path), <<>>)

\* root.add_file(**{"test.txt": "Hello World!"})
TestRootFile == nOps = 1 /\ \E k \in TestFileNames : AddFile(1, TestFile(k))

\* root.add_child("test_folder2")
TestFolder2 == nOps = 2 /\ \E name \in TestNames : AddChild(1, <<NameItem(name)>>)

\* folder3_node = FileTree("test_folder3", path), folder2_node being found
TestFolder3 ==
    nOps = 3 /\ \E name \in TestNames, path \in TestPaths :
                    /\ get_child(nodes, 1, nodes[2].name) # 0
                    /\ Construct(name, StrParent(path), <<>>)

\* folder2_node.add_child(folder3_node)
TestRelocate ==
    nOps = 4 /\ AddChild(get_child(nodes, 1, nodes[2].name), <<NodeItem(3)>>)

\* folder3_node.add_file(**{"test3.txt": "Hello World!"})
TestFolder3File == nOps = 5 /\ \E k \in TestFileNames : AddFile(3, TestFile(k))

\* root.mkTree(), or mkTree() of any node of the tree
TestMkTree == nOps = 6 /\ \E self \in Ids(nodes) : MkTree(self)

TestNext ==
    \/ TestRoot
    \/ TestRootFile
    \/ TestFolder2
    \/ TestFolder3
    \/ TestRelocate
    \/ TestFolder3File
    \/ TestMkTree

SpecTest == Init /\ [][TestNext]_vars

----------------------------------------------------------------------------
(* Notions the properties below are stated in *)

\* the path the parent of n contributes: the raw string, or the parent's path
ParentPath(ns, n) ==
    IF ns[n].parent.isStr THEN Ok(ns[n].parent.str)
    ELSE get_path(ns, ns[n].parent.node)

NoDuplicateSep(s) == \A i \in 1..(Len(s) - 1) : ~(s[i] = SEP /\ s[i + 1] = SEP)

RECURSIVE ReachableFrom(_, _)
\* the objects found from the set S by following children maps
ReachableFrom(ns, S) ==
    LET T == S \cup UNION {DictValues(ns[i].children) : i \in S} IN
    IF T = S THEN S ELSE ReachableFrom(ns, T)

\* every object is the result of a constructor call that returned
AllConstructed(ns) == \A n \in Ids(ns) : ns[n].hasChildren /\ ns[n].hasFiles

\* every parent chain ends at a root
ChainsEnd(ns) == \A n \in Ids(ns) : get_root(ns, n).err = ""

\* no node holds a file and a child directory of one name
NoNameClash(ns) ==
    \A n \in Ids(ns) : DictKeys(ns[n].files) \cap DictKeys(ns[n].children) = {}

\* the directories the successful mkdir calls of a trace created
DirsMade(t) ==
    {Components(t[i].path) : i \in {j \in 1..Len(t) : t[j].kind = "mkdir" /\ t[j].ok}}

\* the positions of the successful writes of a trace to the file at comps
WritesTo(t, comps) ==
    {j \in 1..Len(t) : t[j].kind = "write" /\ t[j].ok /\ Components(t[j].path) = comps}

FilesWritten(t) ==
    {Components(t[i].path) : i \in {j \in 1..Len(t) : t[j].kind = "write" /\ t[j].ok}}

\* the content the last successful write of a trace left in the file at comps
LastWritten(ns, t, comps) ==
    LET i == CHOOSE j \in WritesTo(t, comps) : \A k \in WritesTo(t, comps) : k <= j
    IN DictGet(ns[t[i].node].files, t[i].file)

----------------------------------------------------------------------------
(* C1: every node listed in the children map of a node P has P as its      *)
(* parent (stated of the trees all of whose constructor calls returned).   *)
C1_ChildParentIsContainer ==
    AllConstructed(nodes) =>
        \A p \in Ids(nodes) : \A c \in DictValues(nodes[p].children) :
            nodes[c].parent = NodeParent(p)

(* C2, as claimed: get_path() of a node is the two-operand join of its     *)
(* parent's path (the raw root string for a root) with its name, without   *)
(* duplicate separators and ending in the name.                            *)
C2_PathIsJoinOfParentAndName ==
    \A n \in Ids(nodes) :
        get_path(nodes, n).err = "" =>
            /\ get_path(nodes, n).val = join(ParentPath(nodes, n).val, <<nodes[n].name>>)
            /\ NoDuplicateSep(get_path(nodes, n).val)

(* C2, amended: get_path() of a node is the join of its parent's path (the *)
(* raw root string for a root), its name and the empty string: the         *)
(* two-operand join followed by one separator, without duplicate           *)
(* separators.                                                             *)
C2_PathIsJoinWithTrailingSep ==
    \A n \in Ids(nodes) :
        get_path(nodes, n).err = "" =>
            /\ ParentPath(nodes, n).err = ""
            /\ get_path(nodes, n).val =
                   join(ParentPath(nodes, n).val, <<nodes[n].name, <<>>>>)
            /\ get_path(nodes, n).val =
                   join(ParentPath(nodes, n).val, <<nodes[n].name>>) \o <<SEP>>
            /\ NoDuplicateSep(get_path(nodes, n).val)

\* a node two levels below its root resolves its path
C2_Witness ==
    \E n \in Ids(nodes) :
        /\ ~nodes[n].parent.isStr
        /\ nodes[n].parent.node # n
        /\ ~nodes[nodes[n].parent.node].parent.isStr
        /\ get_path(nodes, n).err = ""
        /\ Len(Components(get_path(nodes, n).val)) = 4

(* C3: a constructor call with a non-empty children argument succeeds and  *)
(* leaves the nodes as constructing without children and then calling      *)
(* add_child with the same items does; with children omitted the child map *)
(* of the new node is empty.                                               *)
C3_ChildrenArgumentIsAddChild ==
    [][/\ \A name \in Names, parent \in Parents(nodes), files \in InitFiles,
             children \in ItemLists(nodes) :
               ConstructWithChildren(name, parent, files, children) =>
                   /\ last'.err = ""
                   /\ nodes' = add_child(init(nodes, name, parent, files,
                                              NoChildren).nodes,
                                         Len(nodes) + 1, children).nodes
       /\ \A name \in Names, parent \in Parents(nodes), files \in InitFiles :
               Construct(name, parent, files) =>
                   nodes'[Len(nodes')].children = <<>>]_vars

(* C4: the parent chain of every node ends at a root, a node whose parent  *)
(* is a raw path string, so get_root() and get_root_path() return (stated  *)
(* of the trees all of whose constructor calls returned).                  *)
C4_ParentChainsEndAtARoot ==
    AllConstructed(nodes) =>
      \A n \in Ids(nodes) :
        /\ get_root(nodes, n).err = ""
        /\ nodes[get_root(nodes, n).val].parent.isStr
        /\ get_root_path(nodes, n) = Ok(nodes[get_root(nodes, n).val].parent.str)

(* C5: after the script of test.py, mkTree on a disk that holds only the   *)
(* script's path completes and leaves exactly a directory at each node's   *)
(* path below the path, the relocated node under its new parent, and each  *)
(* registered file with its stored content.                                *)
C5_TestTreeIsMaterialised ==
    nOps = 7 =>
        LET base == Components(BasePath)
            d1 == base \o nodes[1].name
            d2 == d1 \o nodes[2].name
            d3 == d2 \o nodes[3].name
        IN /\ last.err = ""
           /\ fs.dirs = {<<>>, base, d1, d2, d3}
           /\ DOMAIN fs.files = {d1 \o k : k \in DictKeys(nodes[1].files)}
                                  \cup {d3 \o k : k \in DictKeys(nodes[3].files)}
           /\ \A k \in DictKeys(nodes[1].files) :
                  fs.files[d1 \o k] = DictGet(nodes[1].files, k)
           /\ \A k \in DictKeys(nodes[3].files) :
                  fs.files[d3 \o k] = DictGet(nodes[3].files, k)

\* the test's own literals, materialised
C5_Witness ==
    /\ nOps = 7
    /\ nodes[1].name = <<"test_folder">>
    /\ nodes[2].name = <<"test_folder2">>
    /\ nodes[3].name = <<"test_folder3">>
    /\ <<"base", "test_folder", "test_folder2">> \in fs.dirs
    /\ <<"base", "test_folder", "test.txt">> \in DOMAIN fs.files
    /\ fs.files[<<"base", "test_folder", "test.txt">>] = "Hello World!"
    /\ <<"base", "test_folder", "test_folder2", "test_folder3", "test3.txt">>
           \in DOMAIN fs.files
    /\ fs.files[<<"base", "test_folder", "test_folder2", "test_folder3",
                  "test3.txt">>] = "Hello World!"

(* C6: create_file of a name that the node's files map does not hold       *)
(* raises FileNotFoundError and changes neither the disk nor the tree.     *)
C6_AbsentFileRaisesAndWritesNothing ==
    [][\A self \in Ids(nodes), file_name \in FileNames :
           (/\ last'.op = "create_file"
            /\ CreateFile(self, file_name)
            /\ nodes[self].hasFiles
            /\ ~DictHas(nodes[self].files, file_name)) =>
               /\ last'.err = "FileNotFoundError"
               /\ fs' = fs
               /\ nodes' = nodes]_vars

\* the one node holds a file and lacks another, its directory is on disk, and
\* create_file was refused
C6_Witness ==
    /\ last.op = "create_file"
    /\ last.err = "FileNotFoundError"
    /\ Len(nodes) = 1
    /\ nodes[1].hasFiles
    /\ nodes[1].files # <<>>
    /\ \E k \in FileNames : ~DictHas(nodes[1].files, k)
    /\ get_path(nodes, 1).err = ""
    /\ Components(get_path(nodes, 1).val) \in fs.dirs

(* C7: mkTree starts at get_root() and walks in pre-order: a node's        *)
(* directory is made first, its files are written next, its children are   *)
(* visited last; nothing is written or made before the directory of the    *)
(* node that holds it.                                                     *)
C7_MkTreeIsPreOrderFromRoot ==
    [][\A self \in Ids(nodes) :
           (last'.op = "mkTree" /\ MkTree(self)) =>
               LET t == last'.trace IN
               /\ get_root(nodes, self).err # "" => t = <<>>
               /\ t # <<>> =>
                      /\ t[1].kind = "mkdir"
                      /\ t[1].via = 0
                      /\ Ok(t[1].node) = get_root(nodes, self)
                      /\ t[1].path = get_path(nodes, t[1].node).val
               /\ \A i \in 1..Len(t) :
                      t[i].kind = "write" =>
                          \E j \in 1..(i - 1) :
                              /\ t[j].kind = "mkdir" /\ t[j].ok
                              /\ t[j].node = t[i].node
                              /\ t[i].file \in DictKeys(nodes[t[i].node].files)
                              /\ \A k \in (j + 1)..i :
                                     t[k].kind = "write" /\ t[k].node = t[i].node
               /\ \A i \in 2..Len(t) :
                      t[i].kind = "mkdir" =>
                          /\ t[i].via # 0
                          /\ t[i].node \in DictValues(nodes[t[i].via].children)
                          /\ \E j \in 1..(i - 1) :
                                 /\ t[j].kind = "mkdir" /\ t[j].ok
                                 /\ t[j].node = t[i].via
                                 /\ \A f \in DictKeys(nodes[t[i].via].files) :
                                        \E k \in (j + 1)..(i - 1) :
                                            /\ t[k].kind = "write" /\ t[k].ok
                                            /\ t[k].node = t[i].via
                                            /\ t[k].file = f]_vars

\* a mkTree that made a root, wrote its file and then made a child
C7_Witness ==
    /\ last.op = "mkTree"
    /\ last.err = ""
    /\ \E i, j \in 1..Len(last.trace) :
           /\ i < j
           /\ last.trace[i].kind = "write"
           /\ last.trace[j].kind = "mkdir"
           /\ last.trace[j].via = last.trace[i].node

(* C8: mkdir and mkTree stop at the first filesystem call that fails and   *)
(* raise: the disk afterwards is the disk before plus what the calls       *)
(* before the failing one made, and a mkdir that directly follows a        *)
(* successful mkdir of the same tree fails.                                *)
C8_WalkStopsAtFirstFailure ==
    [][\A self \in Ids(nodes) :
           (last'.op \in {"mkdir", "mkTree"} /\ (MkDir(self) \/ MkTree(self))) =>
               LET t == last'.trace IN
               /\ \A i \in 1..(Len(t) - 1) : t[i].ok
               /\ (t # <<>> /\ ~t[Len(t)].ok) =>
                      /\ last'.err # ""
                      /\ t[Len(t)].kind = "mkdir" =>
                             \/ FsExists(fs', Components(t[Len(t)].path))
                             \/ DirName(Components(t[Len(t)].path)) \notin fs'.dirs
               /\ fs'.dirs = fs.dirs \cup DirsMade(t)
               /\ DOMAIN fs'.files = DOMAIN fs.files \cup FilesWritten(t)
               /\ \A c \in DOMAIN fs'.files :
                      fs'.files[c] = IF c \in FilesWritten(t)
                                     THEN LastWritten(nodes, t, c)
                                     ELSE fs.files[c]
               /\ (/\ MkDir(self)
                   /\ last.op = "mkdir"
                   /\ last.err = ""
                   /\ Ok(last.trace[1].node) = get_root(nodes, self)) =>
                      /\ last'.err = "FileExistsError"
                      /\ fs' = fs]_vars

\* a mkTree that failed after it had made a directory and written a file
C8_Witness ==
    /\ last.op = "mkTree"
    /\ last.err # ""
    /\ Len(last.trace) >= 3
    /\ ~last.trace[Len(last.trace)].ok
    /\ last.trace[2].kind = "write"
    /\ Components(last.trace[2].path) \in DOMAIN fs.files

(* C9: mkTree of a tree built by public calls, on a disk where every raw   *)
(* root path exists and no node's directory does, completes without an     *)
(* error: each directory is made once, after its parent (stated of the     *)
(* trees all of whose constructor calls returned, whose parent chains end  *)
(* and in which no file is named like a directory beside it).              *)
C9_MkTreeOfBuiltTreeCompletes ==
    [][\A self \in Ids(nodes) :
           (/\ MkTree(self)
            /\ AllConstructed(nodes) /\ ChainsEnd(nodes) /\ NoNameClash(nodes)
            /\ \A n \in Ids(nodes) :
                   /\ nodes[n].parent.isStr => os_path_exists(fs, nodes[n].parent.str)
                   /\ ~FsExists(fs, Components(get_path(nodes, n).val))) =>
               last'.err = ""]_vars

(* C10: every node whose get_root() is R is found from R by following      *)
(* children maps, so a successful mkdir or mkTree of R makes a directory   *)
(* at the node's path.                                                     *)
C10_NodesAreReachableFromTheirRoot ==
    /\ \A n \in Ids(nodes) :
           get_root(nodes, n).err = "" =>
               n \in ReachableFrom(nodes, {get_root(nodes, n).val})
    /\ (last.op \in {"mkdir", "mkTree"} /\ last.err = "") =>
           \A n \in Ids(nodes) :
               get_root(nodes, n) = Ok(last.trace[1].node) =>
                   Components(get_path(nodes, n).val) \in fs.dirs

====
